---- MODULE Spec2Model ----
(***************************************************************************)
(* Compliance due-date engine of the equipment tracking application        *)
(* (src/app.py): the Equipment and ComplianceTest tables, the handlers     *)
(* that write them, and Equipment.get_next_due_date /                      *)
(* Equipment.get_last_tested_date, which read them.                        *)
(*                                                                         *)
(* Dates are records [year, month, day]; a string column that the code     *)
(* parses (eq_auditfreq) is a sequence of tokens, see split_comma.         *)
(***************************************************************************)
EXTENDS Integers, Sequences, FiniteSets, TLC

VARIABLES
    equipment,   \* equipment table: eq_id -> row, or NoEquipment
    tests,       \* compliance_tests table: test_id -> row, or NoTest
    next_due,    \* value returned by the last get_next_due_date call
    scheduled,   \* scheduled_tests table: schedule_id -> row, or NoScheduled
    today,       \* datetime.now().date()
    page         \* what the last page view handed to its template

vars == <<equipment, tests, next_due, scheduled, today, page>>

-----------------------------------------------------------------------------
(* Bounds of the model *)

MaxEquipment == 2      \* rows of the equipment table
MaxTests == 2          \* rows of the compliance_tests table
MaxPolicies == 2       \* policies selected at once in SpecDue
FirstYear == 2022      \* first year of the anchor dates of SpecDue
NumYears == 3          \* number of years of anchor dates of SpecDue

MaxScheduled == 2      \* rows of the scheduled_tests table

EqIds == 1..MaxEquipment
TestIds == 1..MaxTests
ScheduleIds == 1..MaxScheduled

-----------------------------------------------------------------------------
(* Python values *)

Date(y, m, d) == [year |-> y, month |-> m, day |-> d]

\* None where a date is expected
NoDate == Date(0, 0, 0)

\* None where a ComplianceTest row is expected, and a free slot of the table
NoTest == [eq_id |-> 0, test_type |-> "", test_date |-> NoDate]

\* a free slot of the scheduled_tests table
NoScheduled == [eq_id |-> 0, scheduled_date |-> NoDate]

\* no page rendered yet
NoPage == [view |-> "none"]

\* a free slot of the equipment table
NoEquipment ==
    [exists |-> FALSE, eq_auditfreq |-> [null |-> TRUE, text |-> <<>>],
     eq_retired |-> FALSE, eq_retdate |-> NoDate, eq_physcov |-> FALSE]

\* date.__lt__ : dates compare as (year, month, day)
date_lt(a, b) ==
    \/ a.year < b.year
    \/ a.year = b.year /\ a.month < b.month
    \/ a.year = b.year /\ a.month = b.month /\ a.day < b.day

date_le(a, b) == a = b \/ date_lt(a, b)

-----------------------------------------------------------------------------
(* calendar / datetime / dateutil, as get_next_due_date uses them *)

is_leap(year) == (year % 4 = 0) /\ ((year % 100 # 0) \/ (year % 400 = 0))

mdays == <<31, 28, 31, 30, 31, 30, 31, 31, 30, 31, 30, 31>>

monthrange_NoLeap(year, month) == mdays[month]

\* calendar.monthrange(year, month)[1]
monthrange(year, month) ==
    mdays[month] + (IF month = 2 /\ is_leap(year) THEN 1 ELSE 0)

\* datetime._days_before_year
days_before_year(year) ==
    LET y == year - 1
    IN  y * 365 + (y \div 4) - (y \div 100) + (y \div 400)

\* datetime._DAYS_BEFORE_MONTH
DAYS_BEFORE_MONTH == <<0, 31, 59, 90, 120, 151, 181, 212, 243, 273, 304, 334>>

\* datetime._days_before_month
days_before_month(year, month) ==
    DAYS_BEFORE_MONTH[month] + (IF month > 2 /\ is_leap(year) THEN 1 ELSE 0)

\* date.toordinal
toordinal(d) ==
    days_before_year(d.year) + days_before_month(d.year, d.month) + d.day

\* date.fromordinal (datetime._ord2ymd)
fromordinal(ordinal) ==
    LET n0 == ordinal - 1
        n400 == n0 \div 146097
        n1r == n0 % 146097
        n100 == n1r \div 36524
        n2r == n1r % 36524
        n4 == n2r \div 1461
        n3r == n2r % 1461
        n1 == n3r \div 365
        n == n3r % 365
        year == n400 * 400 + 1 + n100 * 100 + n4 * 4 + n1
    IN  IF n1 = 4 \/ n100 = 4
        THEN Date(year - 1, 12, 31)
        ELSE LET leapyear == n1 = 3 /\ (n4 # 24 \/ n100 = 3)
                 month0 == (n + 50) \div 32
                 preceding0 == DAYS_BEFORE_MONTH[month0]
                               + (IF month0 > 2 /\ leapyear THEN 1 ELSE 0)
                 month == IF preceding0 > n THEN month0 - 1 ELSE month0
                 preceding ==
                     IF preceding0 > n
                     THEN preceding0
                          - (mdays[month] + (IF month = 2 /\ leapyear THEN 1 ELSE 0))
                     ELSE preceding0
             IN  Date(year, month, n - preceding + 1)

\* date + timedelta(days=days)
add_timedelta(d, days) == fromordinal(toordinal(d) + days)

\* relativedelta(years=, months=) as its constructor normalises it
\* (relativedelta._fix: more than 11 months carry into the years)
relativedelta(years, months) ==
    IF months > 11
    THEN [years |-> years + (months \div 12), months |-> months % 12]
    ELSE [years |-> years, months |-> months]

\* date + relativedelta (relativedelta.__radd__): the year and month move,
\* the day is kept unless the target month is shorter
add_relativedelta(d, rd) ==
    LET year0 == d.year + rd.years
        m0 == d.month + rd.months
        year == IF m0 > 12 THEN year0 + 1 ELSE year0
        month == IF m0 > 12 THEN m0 - 12 ELSE m0
        last == monthrange(year, month)
    IN  Date(year, month, IF d.day < last THEN d.day ELSE last)

\* date.replace(day=day)
replace_day(d, day) == Date(d.year, d.month, day)

-----------------------------------------------------------------------------
(* Strings the code splits at commas.  A string is the sequence of its      *)
(* tokens: "," is a comma, " " a run of whitespace at an edge of a field,  *)
(* and any other token the text of a field between its edge whitespace.    *)

COMMA == ","
SPACE == " "

RECURSIVE split_comma(_)
\* str.split(',')
split_comma(s) ==
    IF \A i \in 1..Len(s) : s[i] # COMMA
    THEN <<s>>
    ELSE LET k == CHOOSE i \in 1..Len(s) :
                      s[i] = COMMA /\ \A j \in 1..(i - 1) : s[j] # COMMA
         IN  <<SubSeq(s, 1, k - 1)>> \o split_comma(SubSeq(s, k + 1, Len(s)))

RECURSIVE lstrip(_)
lstrip(s) == IF s # <<>> /\ Head(s) = SPACE THEN lstrip(Tail(s)) ELSE s

RECURSIVE rstrip(_)
rstrip(s) ==
    IF s # <<>> /\ s[Len(s)] = SPACE THEN rstrip(SubSeq(s, 1, Len(s) - 1)) ELSE s

\* str.strip()
strip(s) == lstrip(rstrip(s))

RECURSIVE join_comma_space(_)
\* ', '.join(list)
join_comma_space(list) ==
    IF list = <<>> THEN <<>>
    ELSE IF Len(list) = 1 THEN <<list[1]>>
    ELSE <<list[1], COMMA, SPACE>> \o join_comma_space(Tail(list))

\* a string column: NULL or a text
Null == [null |-> TRUE, text |-> <<>>]
Text(s) == [null |-> FALSE, text |-> s]

\* truth value of an optional string: None and '' are false
truthy(col) == ~col.null /\ col.text # <<>>

-----------------------------------------------------------------------------
(* Equipment.get_next_due_date and Equipment.get_last_tested_date *)

\* the test types the two queries accept (test_type.in_([...]))
QualifyingTypes == {"acceptance", "annual", "Acceptance", "Annual"}

qualifying_tests_OnlyCapitalized(table, eq_id) ==
    {id \in DOMAIN table :
        /\ table[id] # NoTest
        /\ table[id].eq_id = eq_id
        /\ table[id].test_type \in {"Acceptance", "Annual"}}

qualifying_tests_AnyEquipment(table, eq_id) ==
    {id \in DOMAIN table :
        table[id] # NoTest /\ table[id].test_type \in QualifyingTypes}

\* tests dated after today are left out of the query
qualifying_tests_NotAfterToday(table, eq_id) ==
    {id \in TestIds :
        /\ table[id] # NoTest
        /\ table[id].eq_id = eq_id
        /\ table[id].test_type \in QualifyingTypes
        /\ date_le(table[id].test_date, today)}

\* a test of any type is accepted
qualifying_tests_AnyType(table, eq_id) ==
    {id \in TestIds :
        /\ table[id] # NoTest
        /\ table[id].eq_id = eq_id}

\* ComplianceTest.query.filter(eq_id == self.eq_id, test_type.in_([...]))
qualifying_tests(table, eq_id) ==
    {id \in DOMAIN table :
        /\ table[id] # NoTest
        /\ table[id].eq_id = eq_id
        /\ table[id].test_type \in QualifyingTypes}

\* the query orders by test_date ascending: the oldest test is the first
latest_test_Oldest(table, eq_id) ==
    LET ids == qualifying_tests(table, eq_id)
    IN  IF ids = {} THEN NoTest
        ELSE table[CHOOSE id \in ids :
                       \A other \in ids :
                           \/ date_lt(table[id].test_date, table[other].test_date)
                           \/ /\ table[id].test_date = table[other].test_date
                              /\ id <= other]

\* .order_by(test_date.desc()).first(): a row of the latest date, or None.
\* Rows of equal date come in the order the database likes; the callers
\* read test_date only, which is the same for all of them.
latest_test(table, eq_id) ==
    LET rows == qualifying_tests(table, eq_id)
    IN  IF rows = {} THEN NoTest
        ELSE table[CHOOSE id \in rows :
                 \A other \in rows :
                     date_le(table[other].test_date, table[id].test_date)]

RECURSIVE strip_nonempty(_)
\* [f.strip() for f in pieces if f.strip()]
strip_nonempty(pieces) ==
    IF pieces = <<>> THEN <<>>
    ELSE IF strip(Head(pieces)) # <<>>
         THEN <<strip(Head(pieces))>> \o strip_nonempty(Tail(pieces))
         ELSE strip_nonempty(Tail(pieces))

\* frequencies = [f.strip() for f in self.eq_auditfreq.split(',') if f.strip()]
parse_frequencies(text) == strip_nonempty(split_comma(text))

\* relativedelta(month=3), the absolute month, for relativedelta(months=3)
quarterly_due_AbsoluteMonth(test_date) ==
    LET last_day == monthrange(test_date.year, 3)
    IN  Date(test_date.year, 3, last_day)

\* the branches of the loop over frequencies
quarterly_due(test_date) ==
    LET next_month == add_relativedelta(test_date, relativedelta(0, 3))
        last_day == monthrange(next_month.year, next_month.month)
    IN  replace_day(next_month, last_day)

semiannual_due(test_date) ==
    LET next_month == add_relativedelta(test_date, relativedelta(0, 6))
        last_day == monthrange(next_month.year, next_month.month)
    IN  replace_day(next_month, last_day)

acr_due_EndOfMonth(test_date) ==
    LET next_month == add_relativedelta(test_date, relativedelta(0, 14))
    IN  replace_day(next_month, monthrange(next_month.year, next_month.month))

acr_due(test_date) == add_relativedelta(test_date, relativedelta(0, 14))

tjc_due_DaysFirst(test_date) ==
    add_relativedelta(add_timedelta(test_date, 30), relativedelta(1, 0))

tjc_due(test_date) ==
    add_timedelta(add_relativedelta(test_date, relativedelta(1, 0)), 30)

me_due_SameYear(test_date) == Date(test_date.year, 12, 31)

me_due(test_date) ==
    LET next_year == test_date.year + 1
    IN  Date(next_year, 12, 31)

\* an unknown name ends the loop with nothing computed
due_dates_loop_UnknownAborts(frequencies, test_date) ==
    IF \A i \in 1..Len(frequencies) :
           \E name \in {"Quarterly", "Semiannual", "Annual - ACR", "Annual - TJC",
                        "Annual - ME"} : frequencies[i] = <<name>>
    THEN [i \in 1..Len(frequencies) |->
             IF frequencies[i] = <<"Quarterly">> THEN quarterly_due(test_date)
             ELSE IF frequencies[i] = <<"Semiannual">> THEN semiannual_due(test_date)
             ELSE IF frequencies[i] = <<"Annual - ACR">> THEN acr_due(test_date)
             ELSE IF frequencies[i] = <<"Annual - TJC">> THEN tjc_due(test_date)
             ELSE me_due(test_date)]
    ELSE <<>>

RECURSIVE due_dates_loop(_, _)
\* for freq in frequencies: if/elif chain, a name of no branch appends nothing
due_dates_loop(frequencies, test_date) ==
    IF frequencies = <<>> THEN <<>>
    ELSE LET freq == Head(frequencies)
             rest == due_dates_loop(Tail(frequencies), test_date)
         IN  IF freq = <<"Quarterly">> THEN <<quarterly_due(test_date)>> \o rest
             ELSE IF freq = <<"Semiannual">> THEN <<semiannual_due(test_date)>> \o rest
             ELSE IF freq = <<"Annual - ACR">> THEN <<acr_due(test_date)>> \o rest
             ELSE IF freq = <<"Annual - TJC">> THEN <<tjc_due(test_date)>> \o rest
             ELSE IF freq = <<"Annual - ME">> THEN <<me_due(test_date)>> \o rest
             ELSE rest

min_date_First(dates) == dates[1]

\* min(due_dates)
min_date(dates) ==
    dates[CHOOSE i \in 1..Len(dates) :
              \A j \in 1..Len(dates) : date_le(dates[i], dates[j])]

\* an equipment without frequency falls back to the column default
next_due_date_DefaultTJC(self, test) ==
    IF test # NoTest
    THEN LET text == IF truthy(self.eq_auditfreq) THEN self.eq_auditfreq.text
                     ELSE <<"Annual - TJC">>
             due_dates == due_dates_loop(parse_frequencies(text), test.test_date)
         IN  IF due_dates # <<>> THEN min_date(due_dates) ELSE NoDate
    ELSE NoDate

\* the body of get_next_due_date once the query has returned latest_test
next_due_date(self, test) ==
    IF test # NoTest /\ truthy(self.eq_auditfreq)
    THEN LET frequencies == parse_frequencies(self.eq_auditfreq.text)
             due_dates == due_dates_loop(frequencies, test.test_date)
         IN  IF due_dates # <<>> THEN min_date(due_dates) ELSE NoDate
    ELSE NoDate

\* Equipment.get_next_due_date
get_next_due_date(eq_id) ==
    next_due_date(equipment[eq_id], latest_test(tests, eq_id))

\* the date of the latest acceptance or annual test of any equipment
get_last_tested_date_AnyEquipment(eq_id) ==
    LET test == latest_test([id \in TestIds |->
                                [tests[id] EXCEPT !.eq_id =
                                    IF tests[id] = NoTest THEN 0 ELSE eq_id]],
                            eq_id)
    IN  IF test # NoTest THEN test.test_date ELSE NoDate

\* Equipment.get_last_tested_date
get_last_tested_date(eq_id) ==
    LET test == latest_test(tests, eq_id)
    IN  IF test # NoTest THEN test.test_date ELSE NoDate

\* due on the day of viewing counts as overdue
compliance_status_OverdueInclusive(due, day, days_ahead) ==
    IF due = NoDate THEN "NoFrequency"
    ELSE IF date_le(due, day) THEN "Overdue"
    ELSE IF date_le(due, add_timedelta(day, days_ahead)) THEN "Upcoming"
    ELSE "Compliant"

\* index and compliance_dashboard: the bucket of an active equipment when
\* the page is viewed on the given day
compliance_status(due, day, days_ahead) ==
    IF due = NoDate THEN "NoFrequency"
    ELSE IF date_lt(due, day) THEN "Overdue"
    ELSE IF date_le(due, add_timedelta(day, days_ahead)) THEN "Upcoming"
    ELSE "Compliant"

-----------------------------------------------------------------------------
(* Inputs of the handlers *)

\* EquipmentForm.eq_auditfreq: the choices of the multiple select
FREQUENCY_CHOICES ==
    {"Quarterly", "Semiannual", "Annual - ACR", "Annual - TJC", "Annual - ME"}

\* ComplianceTestForm.test_type: the choices of the select
TEST_TYPE_CHOICES ==
    {"Acceptance", "Annual", "Audit", "Other", "QC Review", "Retire",
     "Shielding Design", "Submission"}

\* test_type cells of an uploaded CSV: import_compliance stores them as read
CsvTestTypes ==
    TEST_TYPE_CHOICES \cup {"acceptance", "annual", "ANNUAL", "aCCEPTANCE", "qc_review"}

\* test dates the handlers of Spec are given
TestDates == {Date(2023, 1, 15), Date(2024, 1, 10)}

\* selections of the multiple select the handlers of Spec are given
FormSelections ==
    {<<>>, <<"Annual - TJC">>, <<"Quarterly", "Annual - ME">>}

\* eq_auditfreq strings of the JSON body update_equipment_details is given:
\* '', 'Monthly', ' , ', 'Weekly, Annual - ACR ,Semiannual'
JsonFrequencies ==
    {<<>>,
     <<"Monthly">>,
     <<SPACE, COMMA, SPACE>>,
     <<"Weekly", COMMA, SPACE, "Annual - ACR", SPACE, COMMA, "Semiannual">>}

\* every date of the years FirstYear .. FirstYear + NumYears - 1
\* the equipment form as Spec submits it: the frequencies selected, the
\* retirement and coverage fields as the blank form has them
EquipmentForms ==
    {[eq_auditfreq |-> selection, eq_retired |-> FALSE, eq_retdate |-> NoDate,
      eq_physcov |-> TRUE] : selection \in FormSelections}

\* the JSON body of update_equipment_details as Spec sends it
JsonBodies ==
    {[eq_auditfreq |-> eq_auditfreq, eq_retired |-> FALSE, eq_retdate |-> NoDate] :
        eq_auditfreq \in JsonFrequencies}

\* the day the pages are viewed
Today == Date(2024, 5, 10)

AnchorDates ==
    {d \in [year : FirstYear..(FirstYear + NumYears - 1), month : 1..12, day : 1..31] :
        d.day <= (CASE d.month \in {4, 6, 9, 11} -> 30
                    [] d.month = 2 ->
                         IF d.year % 4 = 0 /\ (d.year % 100 # 0 \/ d.year % 400 = 0)
                         THEN 29 ELSE 28
                    [] OTHER -> 31)}

\* selections of one to MaxPolicies different choices, in any order
RECURSIVE SelectionsOfLen(_)
SelectionsOfLen(n) ==
    IF n = 0 THEN {<<>>}
    ELSE {Append(sel, c) :
            sel \in SelectionsOfLen(n - 1), c \in FREQUENCY_CHOICES}

DueSelections ==
    {sel \in UNION {SelectionsOfLen(n) : n \in 1..MaxPolicies} :
        \A i, j \in 1..Len(sel) : i # j => sel[i] # sel[j]}

-----------------------------------------------------------------------------
(* The handlers *)

NotCalled == [called |-> FALSE, eq_id |-> 0, value |-> NoDate]

\* the column value both equipment forms store for a selection
auditfreq_of_selection(selection) ==
    IF selection # <<>> THEN Text(join_comma_space(selection)) ELSE Null

\* both equipment forms: retired without a retirement date retires today
retdate_of_form(form) ==
    IF form.eq_retired /\ form.eq_retdate = NoDate THEN today
    ELSE form.eq_retdate

\* equipment_new: a valid form adds a row under the next eq_id
equipment_new(form) ==
    /\ \E eq_id \in EqIds :
        /\ ~equipment[eq_id].exists
        /\ \A lower \in 1..(eq_id - 1) : equipment[lower].exists
        /\ equipment' = [equipment EXCEPT ![eq_id] =
               [exists |-> TRUE,
                eq_auditfreq |-> auditfreq_of_selection(form.eq_auditfreq),
                eq_retired |-> form.eq_retired,
                eq_retdate |-> retdate_of_form(form),
                eq_physcov |-> form.eq_physcov]]
    /\ UNCHANGED <<tests, next_due, scheduled, today, page>>

\* equipment_edit: get_or_404, then the form is written over the row
equipment_edit(eq_id, form) ==
    /\ equipment[eq_id].exists
    /\ equipment' = [equipment EXCEPT ![eq_id] =
           [exists |-> TRUE,
            eq_auditfreq |-> auditfreq_of_selection(form.eq_auditfreq),
            eq_retired |-> form.eq_retired,
            eq_retdate |-> retdate_of_form(form),
            eq_physcov |-> form.eq_physcov]]
    /\ UNCHANGED <<tests, next_due, scheduled, today, page>>

\* update_equipment_details: eq_auditfreq, eq_retdate and eq_retired are
\* stored as the JSON body gives them; eq_physcov is not among its fields
update_equipment_details(eq_id, data) ==
    /\ equipment[eq_id].exists
    /\ equipment' = [equipment EXCEPT
           ![eq_id].eq_auditfreq = Text(data.eq_auditfreq),
           ![eq_id].eq_retdate = data.eq_retdate,
           ![eq_id].eq_retired = data.eq_retired]
    /\ UNCHANGED <<tests, next_due, scheduled, today, page>>

\* db.session.add(test): the row gets a primary key no other row has; no
\* query modelled reads the key, the least free one stands for it
new_test_id(id) ==
    /\ tests[id] = NoTest
    /\ \A lower \in 1..(id - 1) : tests[lower] # NoTest

\* compliance_test_new: get_or_404 on the equipment, the form fills the row
compliance_test_new(eq_id, test_type, test_date) ==
    /\ equipment[eq_id].exists
    /\ \E id \in TestIds :
        /\ new_test_id(id)
        /\ tests' = [tests EXCEPT ![id] =
               [eq_id |-> eq_id, test_type |-> test_type, test_date |-> test_date]]
    /\ UNCHANGED <<equipment, next_due, scheduled, today, page>>

\* compliance_test_edit: the form is written over the row, eq_id stays
compliance_test_edit(test_id, test_type, test_date) ==
    /\ tests[test_id] # NoTest
    /\ tests' = [tests EXCEPT ![test_id].test_type = test_type,
                              ![test_id].test_date = test_date]
    /\ UNCHANGED <<equipment, next_due, scheduled, today, page>>

\* the delete removes every test of the equipment the test belongs to
compliance_test_delete_AllOfEquipment(test_id) ==
    /\ tests[test_id] # NoTest
    /\ tests' = [id \in TestIds |->
           IF tests[id].eq_id = tests[test_id].eq_id THEN NoTest ELSE tests[id]]
    /\ UNCHANGED <<equipment, next_due, scheduled, today, page>>

\* compliance_test_delete
compliance_test_delete(test_id) ==
    /\ tests[test_id] # NoTest
    /\ tests' = [tests EXCEPT ![test_id] = NoTest]
    /\ UNCHANGED <<equipment, next_due, scheduled, today, page>>

\* import_compliance, for a CSV of one row: test_id = 0 is an empty test_id
\* cell.  A row of an unknown equipment is counted as an error and skipped;
\* a test_id of no row makes a new row, like an empty one.
import_compliance(test_id, eq_id, test_type, test_date) ==
    /\ IF ~equipment[eq_id].exists
       THEN UNCHANGED tests
       ELSE IF test_id \in TestIds /\ tests[test_id] # NoTest
       THEN tests' = [tests EXCEPT ![test_id] =
                [eq_id |-> eq_id, test_type |-> test_type, test_date |-> test_date]]
       ELSE \E id \in TestIds :
                /\ new_test_id(id)
                /\ tests' = [tests EXCEPT ![id] =
                       [eq_id |-> eq_id, test_type |-> test_type,
                        test_date |-> test_date]]
    /\ UNCHANGED <<equipment, next_due, scheduled, today, page>>

\* a page asks an equipment for its next due date
GetNextDueDate(eq_id) ==
    /\ equipment[eq_id].exists
    /\ ~next_due.called
    /\ next_due' = [called |-> TRUE, eq_id |-> eq_id,
                    value |-> get_next_due_date(eq_id)]
    /\ UNCHANGED <<equipment, tests, scheduled, today, page>>

-----------------------------------------------------------------------------
(* The pages: index, compliance_dashboard and equipment_detail *)

\* datetime.MAXYEAR: date arithmetic that leaves year 9999 raises
MAXYEAR == 9999

\* the default of the days parameter of compliance_dashboard, and the window
\* of index
DEFAULT_DAYS == 90

\* the days a scheduled test must lie after the last test to be shown
SCHEDULE_GAP_DAYS == 30

\* get_next_due_date raises: it has no try, and the date of a known
\* frequency of the list falls after year MAXYEAR (ValueError from
\* relativedelta and datetime(), OverflowError from + timedelta)
due_date_raises(eq_id) ==
    LET self == equipment[eq_id]
        test == latest_test(tests, eq_id)
    IN  /\ test # NoTest
        /\ truthy(self.eq_auditfreq)
        /\ LET due_dates == due_dates_loop(parse_frequencies(self.eq_auditfreq.text),
                                           test.test_date)
           IN  \E i \in 1..Len(due_dates) : due_dates[i].year > MAXYEAR

\* the filter of the active_equipment query of index and compliance_dashboard
active_filter_NoRetdate(self) ==
    /\ self.exists
    /\ self.eq_retired = FALSE
    /\ self.eq_physcov = TRUE

active_filter(self) ==
    /\ self.exists
    /\ self.eq_retired = FALSE
    /\ self.eq_physcov = TRUE
    /\ (self.eq_retdate = NoDate \/ date_lt(today, self.eq_retdate))

\* equipment.eq_retired or (equipment.eq_retdate and equipment.eq_retdate <= today)
is_retired(self) ==
    self.eq_retired \/ (self.eq_retdate # NoDate /\ date_le(self.eq_retdate, today))

\* the lists in which .all() can return the rows of a set of keys when the
\* query has no order_by: every order
fetch_orders(keys) ==
    {order \in [1..Cardinality(keys) -> keys] :
        \A i, j \in 1..Cardinality(keys) : i # j => order[i] # order[j]}

\* .order_by(ScheduledTest.scheduled_date.asc()).all() over the rows of a
\* set of schedule_ids: every order that ascends in scheduled_date
fetch_by_scheduled_date(schedule_ids) ==
    {order \in fetch_orders(schedule_ids) :
        \A i, j \in 1..Len(order) :
            i < j => date_le(scheduled[order[i]].scheduled_date,
                             scheduled[order[j]].scheduled_date)}

\* list.sort(key=lambda x: x[0].<key>): ascending in the attribute named
\* key, entries of equal key in the order they had
list_sort_Unsorted(list, key) == list

list_sort(list, key) ==
    LET rank(i) ==
            1 + Cardinality({j \in 1..Len(list) :
                    \/ date_lt(list[j][key], list[i][key])
                    \/ (list[j][key] = list[i][key] /\ j < i)})
    IN  [n \in 1..Len(list) |-> list[CHOOSE i \in 1..Len(list) : rank(i) = n]]

\* not last_tested or test.scheduled_date > last_tested + timedelta(days=30)
after_last_test_Inclusive(last_tested, scheduled_date) ==
    \/ last_tested = NoDate
    \/ date_le(add_timedelta(last_tested, SCHEDULE_GAP_DAYS), scheduled_date)

after_last_test(last_tested, scheduled_date) ==
    \/ last_tested = NoDate
    \/ date_lt(add_timedelta(last_tested, SCHEDULE_GAP_DAYS), scheduled_date)

\* the dashboard defaults to a window of 30 days
days_ahead_of_Thirty(days) == IF days < 1 THEN 30 ELSE days

\* compliance_dashboard: days_ahead from the days parameter
days_ahead_of(days) == IF days < 1 THEN DEFAULT_DAYS ELSE days

\* compliance_dashboard, the loop that fills scheduled_by_equipment: the
\* dictionary maps an eq_id to a schedule_id, 0 where it has no key
scheduled_by_equipment_loop_FirstSeen(all_scheduled_tests, dict) ==
    [eq_id \in EqIds |->
        LET own == SelectSeq(all_scheduled_tests,
                             LAMBDA id : scheduled[id].eq_id = eq_id)
        IN  IF /\ own # <<>>
               /\ equipment[eq_id].exists
               /\ after_last_test(get_last_tested_date(eq_id),
                                  scheduled[own[1]].scheduled_date)
            THEN own[1] ELSE 0]

RECURSIVE scheduled_by_equipment_loop(_, _)

scheduled_by_equipment_loop(all_scheduled_tests, dict) ==
    IF all_scheduled_tests = <<>> THEN dict
    ELSE LET test == scheduled[Head(all_scheduled_tests)]
             include ==
                 /\ dict[test.eq_id] = 0
                 /\ equipment[test.eq_id].exists
                 /\ after_last_test(get_last_tested_date(test.eq_id),
                                    test.scheduled_date)
         IN  scheduled_by_equipment_loop(Tail(all_scheduled_tests),
                 IF include
                 THEN [dict EXCEPT ![test.eq_id] = Head(all_scheduled_tests)]
                 ELSE dict)

\* the condition under which index and compliance_dashboard keep a
\* scheduled test
scheduled_test_shown(schedule_id) ==
    LET test == scheduled[schedule_id]
    IN  /\ test # NoScheduled
        /\ date_le(today, test.scheduled_date)
        /\ equipment[test.eq_id].exists
        /\ ~is_retired(equipment[test.eq_id])

\* compliance_dashboard: what the template gets for the rows as fetched; an
\* exception of get_next_due_date leaves the view, the response is an error
dashboard_page(days, active_equipment, all_scheduled_tests) ==
    LET days_ahead == days_ahead_of(days)
        scheduled_by_equipment ==
            scheduled_by_equipment_loop(all_scheduled_tests, [eq_id \in EqIds |-> 0])
        shown == SelectSeq(all_scheduled_tests, scheduled_test_shown)
        scheduled_tests ==
            [i \in 1..Len(shown) |->
                [schedule_id |-> shown[i],
                 eq_id |-> scheduled[shown[i]].eq_id,
                 scheduled_date |-> scheduled[shown[i]].scheduled_date]]
        status(eq_id) == compliance_status(get_next_due_date(eq_id), today, days_ahead)
        fake_tests(bucket) ==
            LET members == SelectSeq(active_equipment,
                                     LAMBDA eq_id : status(eq_id) = bucket)
            IN  [i \in 1..Len(members) |->
                    [eq_id |-> members[i],
                     next_due_date |-> get_next_due_date(members[i]),
                     last_tested_date |-> get_last_tested_date(members[i])]]
    IN  IF \E i \in 1..Len(active_equipment) : due_date_raises(active_equipment[i])
        THEN [view |-> "compliance_dashboard", error |-> TRUE]
        ELSE [view |-> "compliance_dashboard", error |-> FALSE,
              days_ahead |-> days_ahead,
              overdue_tests |->
                  list_sort(fake_tests("Overdue"), "next_due_date"),
              upcoming_tests |->
                  list_sort(fake_tests("Upcoming"), "next_due_date"),
              scheduled_tests |->
                  list_sort(scheduled_tests, "scheduled_date"),
              scheduled_by_equipment |-> scheduled_by_equipment]

\* the schedule_ids of the table, and the eq_ids the active filter keeps
schedule_ids == {id \in ScheduleIds : scheduled[id] # NoScheduled}
active_equipment_ids == {eq_id \in EqIds : active_filter(equipment[eq_id])}

\* a view that deletes the scheduled tests its 30-day rule hides
compliance_dashboard_DeletesHidden(days) ==
    /\ \E active_equipment \in fetch_orders(active_equipment_ids),
          all_scheduled_tests \in fetch_by_scheduled_date(schedule_ids) :
          page' = dashboard_page(days, active_equipment, all_scheduled_tests)
    /\ scheduled' = [id \in ScheduleIds |->
           IF /\ scheduled[id] # NoScheduled
              /\ ~after_last_test(get_last_tested_date(scheduled[id].eq_id),
                                  scheduled[id].scheduled_date)
           THEN NoScheduled ELSE scheduled[id]]
    /\ UNCHANGED <<equipment, tests, next_due, today>>

\* compliance_dashboard, for the days parameter of the query string
compliance_dashboard(days) ==
    /\ \E active_equipment \in fetch_orders(active_equipment_ids),
          all_scheduled_tests \in fetch_by_scheduled_date(schedule_ids) :
          page' = dashboard_page(days, active_equipment, all_scheduled_tests)
    /\ UNCHANGED <<equipment, tests, next_due, scheduled, today>>

\* the start page counts with two independent tests: what is overdue is
\* counted as upcoming too
index_CountsOverdueTwice ==
    /\ page' =
        IF \E eq_id \in active_equipment_ids : due_date_raises(eq_id)
        THEN [view |-> "index", error |-> TRUE]
        ELSE LET count(bucket) ==
                     Cardinality({eq_id \in active_equipment_ids :
                         compliance_status(get_next_due_date(eq_id), today,
                                           DEFAULT_DAYS) = bucket})
             IN  [view |-> "index", error |-> FALSE,
                  overdue_count |-> count("Overdue"),
                  upcoming_count |-> count("Upcoming") + count("Overdue"),
                  compliant_count |-> count("Compliant"),
                  no_frequency_count |-> count("NoFrequency"),
                  scheduled_tests_count |->
                      Cardinality({id \in ScheduleIds : scheduled_test_shown(id)})]
    /\ UNCHANGED <<equipment, tests, next_due, scheduled, today>>

\* index: the counts of the start page
index ==
    /\ page' =
        IF \E eq_id \in active_equipment_ids : due_date_raises(eq_id)
        THEN [view |-> "index", error |-> TRUE]
        ELSE LET count(bucket) ==
                     Cardinality({eq_id \in active_equipment_ids :
                         compliance_status(get_next_due_date(eq_id), today,
                                           DEFAULT_DAYS) = bucket})
             IN  [view |-> "index", error |-> FALSE,
                  overdue_count |-> count("Overdue"),
                  upcoming_count |-> count("Upcoming"),
                  compliant_count |-> count("Compliant"),
                  no_frequency_count |-> count("NoFrequency"),
                  scheduled_tests_count |->
                      Cardinality({id \in ScheduleIds : scheduled_test_shown(id)})]
    /\ UNCHANGED <<equipment, tests, next_due, scheduled, today>>

\* equipment_detail: the next due date of an equipment that is not retired,
\* and its scheduled tests more than 30 days after its last test
equipment_detail(eq_id) ==
    /\ equipment[eq_id].exists
    /\ \E all_scheduled \in fetch_by_scheduled_date(
              {id \in schedule_ids : scheduled[id].eq_id = eq_id}) :
          page' =
            IF ~is_retired(equipment[eq_id]) /\ due_date_raises(eq_id)
            THEN [view |-> "equipment_detail", eq_id |-> eq_id, error |-> TRUE]
            ELSE [view |-> "equipment_detail", eq_id |-> eq_id, error |-> FALSE,
                  next_test |-> IF is_retired(equipment[eq_id]) THEN NoDate
                                ELSE get_next_due_date(eq_id),
                  scheduled_tests |->
                      SelectSeq(all_scheduled,
                          LAMBDA id : after_last_test(get_last_tested_date(eq_id),
                                                      scheduled[id].scheduled_date))]
    /\ UNCHANGED <<equipment, tests, next_due, scheduled, today>>

-----------------------------------------------------------------------------
(* Spec: the tables from the empty database on, under the handlers *)

Init ==
    /\ equipment = [eq_id \in EqIds |-> NoEquipment]
    /\ tests = [id \in TestIds |-> NoTest]
    /\ next_due = NotCalled
    /\ scheduled = [id \in ScheduleIds |-> NoScheduled]
    /\ today = Today
    /\ page = NoPage

Next ==
    \/ \E form \in EquipmentForms : equipment_new(form)
    \/ \E eq_id \in EqIds, form \in EquipmentForms :
           equipment_edit(eq_id, form)
    \/ \E eq_id \in EqIds, data \in JsonBodies :
           update_equipment_details(eq_id, data)
    \/ \E eq_id \in EqIds, test_type \in TEST_TYPE_CHOICES, test_date \in TestDates :
           compliance_test_new(eq_id, test_type, test_date)
    \/ \E test_id \in TestIds, test_type \in TEST_TYPE_CHOICES, test_date \in TestDates :
           compliance_test_edit(test_id, test_type, test_date)
    \/ \E test_id \in TestIds : compliance_test_delete(test_id)
    \/ \E test_id \in {0} \cup TestIds, eq_id \in EqIds,
          test_type \in CsvTestTypes, test_date \in TestDates :
           import_compliance(test_id, eq_id, test_type, test_date)

Spec == Init /\ [][Next]_vars

-----------------------------------------------------------------------------
(* SpecDue: get_next_due_date asked of an equipment whose form selected     *)
(* one to MaxPolicies policies and whose only test is an Annual test on    *)
(* any date of the years modelled                                          *)

InitDue ==
    /\ \E selection \in DueSelections :
         equipment = [eq_id \in EqIds |->
             IF eq_id = 1
             THEN [exists |-> TRUE,
                   eq_auditfreq |-> auditfreq_of_selection(selection),
                   eq_retired |-> FALSE, eq_retdate |-> NoDate,
                   eq_physcov |-> TRUE]
             ELSE NoEquipment]
    /\ \E test_date \in AnchorDates :
         tests = [id \in TestIds |->
             IF id = 1
             THEN [eq_id |-> 1, test_type |-> "Annual", test_date |-> test_date]
             ELSE NoTest]
    /\ next_due = NotCalled
    /\ scheduled = [id \in ScheduleIds |-> NoScheduled]
    /\ today = Today
    /\ page = NoPage

NextDue == \E eq_id \in EqIds : GetNextDueDate(eq_id)

SpecDue == InitDue /\ [][NextDue]_vars

-----------------------------------------------------------------------------
(* SpecPages: the pages viewed on Today over a database that the handlers   *)
(* can leave behind.  Equipment 1 has any retirement and coverage fields   *)
(* (update_equipment_details stores eq_retired and eq_retdate as sent, the *)
(* form stores eq_physcov), equipment 2 is active when it exists; each has *)
(* at most one Annual test; schedule_test_new puts a scheduled test on any *)
(* date under any equipment                                                *)

\* test dates of equipment 1: under Annual - TJC due the day before Today,
\* on Today, 90 days after, 91 days after, and a test nine days ago
PageTestDates ==
    {Date(2023, 4, 9), Date(2023, 4, 10), Date(2023, 7, 9), Date(2023, 7, 10),
     Date(2024, 5, 1)}

\* test dates of equipment 2: due long ago, due the day before Today, and a
\* date typed with year 9999
OtherTestDates == {Date(2023, 1, 15), Date(2023, 4, 9), Date(9999, 6, 1)}

\* scheduled dates: yesterday, and 19, 30 and 31 days after 2024-05-01
ScheduledDates ==
    {Date(2024, 5, 9), Date(2024, 5, 20), Date(2024, 5, 31), Date(2024, 6, 1)}

\* retirement dates: none, Today, tomorrow
RetirementDates == {NoDate, Today, Date(2024, 5, 11)}

\* the days parameter of the dashboard: below 1 (the default applies), 91
DaysParameters == {0, 91}

InitPages ==
    /\ today = Today
    /\ next_due = NotCalled
    /\ page = NoPage
    /\ \E eq_auditfreq \in {Null, Text(<<"Annual - TJC">>)},
          eq_retired \in BOOLEAN, eq_physcov \in BOOLEAN,
          eq_retdate \in RetirementDates, second \in BOOLEAN :
          equipment = [eq_id \in EqIds |->
              IF eq_id = 1
              THEN [exists |-> TRUE, eq_auditfreq |-> eq_auditfreq,
                    eq_retired |-> eq_retired, eq_retdate |-> eq_retdate,
                    eq_physcov |-> eq_physcov]
              ELSE IF eq_id = 2 /\ second
              THEN [exists |-> TRUE, eq_auditfreq |-> Text(<<"Annual - TJC">>),
                    eq_retired |-> FALSE, eq_retdate |-> NoDate,
                    eq_physcov |-> TRUE]
              ELSE NoEquipment]
    /\ \E first \in {NoTest} \cup
              {[eq_id |-> 1, test_type |-> "Annual", test_date |-> d] :
                  d \in PageTestDates},
          other \in {NoTest} \cup
              {[eq_id |-> 2, test_type |-> "Annual", test_date |-> d] :
                  d \in OtherTestDates} :
          /\ other # NoTest => equipment[other.eq_id].exists
          /\ tests = [id \in TestIds |->
                 IF id = 1 THEN first ELSE IF id = 2 THEN other ELSE NoTest]
    /\ \E first \in {NoScheduled} \cup
              {[eq_id |-> e, scheduled_date |-> d] :
                  e \in {1, 2}, d \in ScheduledDates},
          other \in {NoScheduled} \cup
              {[eq_id |-> 1, scheduled_date |-> d] :
                  d \in {Date(2024, 5, 9), Date(2024, 6, 1)}} :
          /\ first # NoScheduled => equipment[first.eq_id].exists
          /\ scheduled = [id \in ScheduleIds |->
                 IF id = 1 THEN first ELSE IF id = 2 THEN other ELSE NoScheduled]

NextPages ==
    \/ index
    \/ \E days \in DaysParameters : compliance_dashboard(days)
    \/ \E eq_id \in EqIds : equipment_detail(eq_id)

SpecPages == InitPages /\ [][NextPages]_vars

-----------------------------------------------------------------------------
(* The calendar and the policies as the specification words them *)

DaysInMonth(year, month) ==
    CASE month \in {4, 6, 9, 11} -> 30
      [] month = 2 ->
           IF year % 4 = 0 /\ (year % 100 # 0 \/ year % 400 = 0) THEN 29 ELSE 28
      [] OTHER -> 31

\* months since year 0
MonthIndex(d) == d.year * 12 + (d.month - 1)

Earlier(a, b) ==
    \/ MonthIndex(a) < MonthIndex(b)
    \/ MonthIndex(a) = MonthIndex(b) /\ a.day < b.day

\* the date n calendar months after d, the day clamped to the target month
PlusMonths(d, n) ==
    LET idx == MonthIndex(d) + n
        y == idx \div 12
        m == (idx % 12) + 1
    IN  Date(y, m, IF d.day > DaysInMonth(y, m) THEN DaysInMonth(y, m) ELSE d.day)

RECURSIVE PlusDays(_, _)
\* the date n days after d, one day at a time
PlusDays(d, n) ==
    IF n = 0 THEN d
    ELSE IF d.day < DaysInMonth(d.year, d.month)
         THEN PlusDays(Date(d.year, d.month, d.day + 1), n - 1)
         ELSE IF d.month < 12
              THEN PlusDays(Date(d.year, d.month + 1, 1), n - 1)
              ELSE PlusDays(Date(d.year + 1, 1, 1), n - 1)

KnownPolicies ==
    {"Quarterly", "Semiannual", "Annual - ACR", "Annual - TJC", "Annual - ME"}

\* the tests of an equipment that have one of the four accepted spellings
AnchorCandidates(e) ==
    {id \in TestIds :
        /\ tests[id] # NoTest
        /\ tests[id].eq_id = e
        /\ tests[id].test_type \in {"acceptance", "annual", "Acceptance", "Annual"}}

\* the latest date among them, NoDate when there is none
AnchorDate(e) ==
    IF AnchorCandidates(e) = {} THEN NoDate
    ELSE LET dates == {tests[id].test_date : id \in AnchorCandidates(e)}
         IN  CHOOSE d \in dates : \A o \in dates : ~Earlier(d, o)

\* the known policy names among the fields of an equipment's configuration
ConfiguredPolicies(e) ==
    LET text == equipment[e].eq_auditfreq.text
    IN  {text[i] : i \in 1..Len(text)} \cap KnownPolicies

EarliestOf(dates) == CHOOSE d \in dates : \A o \in dates : ~Earlier(o, d)

\* what get_next_due_date returns for an equipment configured with the one
\* policy `name` and anchored on `anchor`
SinglePolicyDue(name, anchor) ==
    next_due_date([exists |-> TRUE, eq_auditfreq |-> Text(<<name>>)],
                  [eq_id |-> 1, test_type |-> "Annual", test_date |-> anchor])

\* the configuration of the equipment the call was made on is exactly `name`
AskedWith(name) ==
    /\ next_due.called
    /\ equipment[next_due.eq_id].eq_auditfreq = Text(<<name>>)

-----------------------------------------------------------------------------
(* Claims about the policies, under SpecDue *)

\* C1: with several policies configured, the due date is the earliest of the
\* due dates each configured policy gives alone for the same anchor date
C1_EarliestPolicyWins ==
    next_due.called =>
        LET e == next_due.eq_id
        IN  next_due.value =
                EarliestOf({SinglePolicyDue(name, AnchorDate(e)) :
                                name \in ConfiguredPolicies(e)})

\* two policies whose single results differ, the one listed last being earlier
C1_Witness ==
    /\ next_due.called
    /\ equipment[next_due.eq_id].eq_auditfreq =
           Text(<<"Annual - ME", COMMA, SPACE, "Quarterly">>)
    /\ AnchorDate(next_due.eq_id) = Date(2024, 1, 10)
    /\ next_due.value = Date(2024, 4, 30)
    /\ SinglePolicyDue("Annual - ME", Date(2024, 1, 10)) = Date(2025, 12, 31)

\* C5: Quarterly (Semiannual) is due on the last day of the month 3 (6)
\* calendar months after the anchor's month
C5_QuarterlySemiannualEndOfMonth ==
    /\ AskedWith("Quarterly") =>
          /\ MonthIndex(next_due.value) = MonthIndex(AnchorDate(next_due.eq_id)) + 3
          /\ next_due.value.day = DaysInMonth(next_due.value.year, next_due.value.month)
    /\ AskedWith("Semiannual") =>
          /\ MonthIndex(next_due.value) = MonthIndex(AnchorDate(next_due.eq_id)) + 6
          /\ next_due.value.day = DaysInMonth(next_due.value.year, next_due.value.month)

\* a quarter that rolls over the year and ends on a leap day
C5_Witness ==
    /\ AskedWith("Quarterly")
    /\ AnchorDate(next_due.eq_id) = Date(2023, 11, 30)
    /\ next_due.value = Date(2024, 2, 29)

\* C6: Annual - ACR is due 14 calendar months after the anchor, on the
\* anchor's day of month, clamped only when the target month is shorter
C6_AcrFourteenMonths ==
    AskedWith("Annual - ACR") =>
        LET anchor == AnchorDate(next_due.eq_id)
            due == next_due.value
        IN  /\ MonthIndex(due) = MonthIndex(anchor) + 14
            /\ due.day = IF anchor.day > DaysInMonth(due.year, due.month)
                         THEN DaysInMonth(due.year, due.month)
                         ELSE anchor.day

\* the day is kept in a longer month, though it is not the month's last
C6_Witness ==
    /\ AskedWith("Annual - ACR")
    /\ AnchorDate(next_due.eq_id) = Date(2022, 11, 30)
    /\ next_due.value = Date(2024, 1, 30)

\* C7: Annual - TJC is due 30 days after the date 12 calendar months after
\* the anchor; an anchor of 2023-01-15 is due 2024-02-14, Overdue on 2024-02-20
C7_TjcYearThenThirtyDays ==
    AskedWith("Annual - TJC") =>
        LET anchor == AnchorDate(next_due.eq_id)
        IN  /\ next_due.value = PlusDays(PlusMonths(anchor, 12), 30)
            /\ anchor = Date(2023, 1, 15) =>
                  /\ next_due.value = Date(2024, 2, 14)
                  /\ compliance_status(next_due.value, Date(2024, 2, 20), 90) = "Overdue"

C7_Witness ==
    /\ AskedWith("Annual - TJC")
    /\ AnchorDate(next_due.eq_id) = Date(2023, 1, 15)
    /\ next_due.value = Date(2024, 2, 14)

\* C8: Annual - ME is due on December 31 of the year after the anchor's year
C8_MeEndOfNextYear ==
    AskedWith("Annual - ME") =>
        next_due.value = Date(AnchorDate(next_due.eq_id).year + 1, 12, 31)

C8_Witness ==
    /\ AskedWith("Annual - ME")
    /\ AnchorDate(next_due.eq_id) = Date(2023, 12, 31)
    /\ next_due.value = Date(2024, 12, 31)

\* C9: each policy's due date is strictly after the anchor, and so is every
\* due date returned, compared with the equipment's last tested date
C9_DueAfterAnchor ==
    next_due.called =>
        /\ \A name \in ConfiguredPolicies(next_due.eq_id) :
               Earlier(AnchorDate(next_due.eq_id),
                       SinglePolicyDue(name, AnchorDate(next_due.eq_id)))
        /\ next_due.value # NoDate =>
               Earlier(get_last_tested_date(next_due.eq_id), next_due.value)

\* the shortest distance there is: a quarter from the last day of a month
C9_Witness ==
    /\ AskedWith("Quarterly")
    /\ get_last_tested_date(next_due.eq_id) = Date(2023, 1, 31)
    /\ next_due.value = Date(2023, 4, 30)

-----------------------------------------------------------------------------
(* Claims about the anchor and the configuration, under Spec *)

\* C2: get_next_due_date returns None exactly when the equipment has no
\* qualifying test or no valid policy configured
C2_NoneIffNoAnchorOrNoPolicy ==
    \A e \in EqIds :
        equipment[e].exists =>
            (get_next_due_date(e) = NoDate
                <=> (AnchorCandidates(e) = {} \/ ConfiguredPolicies(e) = {}))

\* one equipment has a test history and no frequency and gets None, another
\* has a qualifying test and a valid policy and gets a date
C2_Witness ==
    \E e1, e2 \in EqIds :
        /\ equipment[e1].exists /\ equipment[e2].exists
        /\ AnchorCandidates(e1) # {}
        /\ equipment[e1].eq_auditfreq = Null
        /\ get_next_due_date(e1) = NoDate
        /\ AnchorCandidates(e2) # {}
        /\ ConfiguredPolicies(e2) # {}
        /\ get_next_due_date(e2) # NoDate

\* C3: the anchor is the latest of the equipment's own acceptance and annual
\* tests; tests of other types and of other equipment never are
C3_AnchorIsLatestOwnQualifyingTest ==
    \A e \in EqIds :
        equipment[e].exists =>
            /\ get_last_tested_date(e) = AnchorDate(e)
            /\ latest_test(tests, e) # NoTest =>
                  /\ latest_test(tests, e).eq_id = e
                  /\ latest_test(tests, e).test_type
                        \in {"acceptance", "annual", "Acceptance", "Annual"}
            /\ get_next_due_date(e) =
                  IF AnchorDate(e) = NoDate THEN NoDate
                  ELSE next_due_date(equipment[e],
                           [eq_id |-> e, test_type |-> "Annual",
                            test_date |-> AnchorDate(e)])

\* an equipment's later test of another type leaves the earlier annual or
\* acceptance test the anchor
C3_Witness ==
    \E e \in EqIds, a, b \in TestIds :
        /\ a \in AnchorCandidates(e)
        /\ tests[b] # NoTest /\ tests[b].eq_id = e
        /\ tests[b].test_type \in
               {"Audit", "Other", "QC Review", "Retire", "Shielding Design",
                "Submission", "qc_review"}
        /\ Earlier(tests[a].test_date, tests[b].test_date)
        /\ get_last_tested_date(e) = tests[a].test_date
        /\ get_next_due_date(e) # NoDate

\* letter-case folding of the test types of the model
LowerCase(test_type) ==
    CASE test_type \in {"annual", "Annual", "ANNUAL"} -> "annual"
      [] test_type \in {"acceptance", "Acceptance", "aCCEPTANCE"} -> "acceptance"
      [] OTHER -> test_type

\* what the two methods return for equipment e over a table of tests
ResultsOver(table, e) ==
    <<latest_test(table, e).test_date,
      next_due_date(equipment[e], latest_test(table, e))>>

\* the tests, every letter-case variant of acceptance/annual spelled capitalized
AnyCaseAsCapitalized ==
    [id \in TestIds |->
        IF LowerCase(tests[id].test_type) = "annual"
        THEN [tests[id] EXCEPT !.test_type = "Annual"]
        ELSE IF LowerCase(tests[id].test_type) = "acceptance"
        THEN [tests[id] EXCEPT !.test_type = "Acceptance"]
        ELSE tests[id]]

\* the tests, the lowercase spellings spelled capitalized and the tests of
\* any other letter-case variant removed
LowercaseAsCapitalized ==
    [id \in TestIds |->
        IF tests[id].test_type = "annual"
        THEN [tests[id] EXCEPT !.test_type = "Annual"]
        ELSE IF tests[id].test_type = "acceptance"
        THEN [tests[id] EXCEPT !.test_type = "Acceptance"]
        ELSE IF /\ LowerCase(tests[id].test_type) \in {"annual", "acceptance"}
                /\ tests[id].test_type \notin {"Annual", "Acceptance"}
        THEN NoTest
        ELSE tests[id]]

\* C4 as claimed: a test of any letter-case variant of acceptance or annual
\* takes part in the anchor selection exactly like Annual / Acceptance
C4_AnyLetterCaseQualifies ==
    \A e \in EqIds :
        equipment[e].exists => ResultsOver(tests, e) = ResultsOver(AnyCaseAsCapitalized, e)

\* C4 as amended: the spellings acceptance, annual, Acceptance and Annual
\* take part alike; a test of any other letter case takes no part
C4_FourSpellingsQualify ==
    \A e \in EqIds :
        equipment[e].exists =>
            ResultsOver(tests, e) = ResultsOver(LowercaseAsCapitalized, e)

\* a lowercase annual test anchors although an ANNUAL test is later
C4_Witness ==
    \E e \in EqIds, a, b \in TestIds :
        /\ equipment[e].exists
        /\ tests[a] = [eq_id |-> e, test_type |-> "annual", test_date |-> Date(2023, 1, 15)]
        /\ tests[b] = [eq_id |-> e, test_type |-> "ANNUAL", test_date |-> Date(2024, 1, 10)]
        /\ get_last_tested_date(e) = Date(2023, 1, 15)
        /\ ConfiguredPolicies(e) # {}
        /\ get_next_due_date(e) # NoDate

\* the configuration has a field that is no known policy name
HasUnknownName(e) ==
    LET text == equipment[e].eq_auditfreq.text
    IN  \E i \in 1..Len(text) : text[i] \notin KnownPolicies \cup {COMMA, SPACE}

\* C10: a name that is no known policy is skipped: the due date is the
\* earliest over the known names left, None when none is left
C10_UnknownNamesSkipped ==
    \A e \in EqIds :
        (equipment[e].exists /\ HasUnknownName(e)) =>
            get_next_due_date(e) =
                IF AnchorDate(e) = NoDate \/ ConfiguredPolicies(e) = {}
                THEN NoDate
                ELSE EarliestOf({SinglePolicyDue(name, AnchorDate(e)) :
                                    name \in ConfiguredPolicies(e)})

\* 'Weekly, Annual - ACR ,Semiannual' on an anchor of 2023-01-15: Weekly is
\* skipped, Semiannual (2023-07-31) is earlier than Annual - ACR (2024-03-15)
C10_Witness ==
    \E e \in EqIds :
        /\ equipment[e].exists
        /\ equipment[e].eq_auditfreq =
               Text(<<"Weekly", COMMA, SPACE, "Annual - ACR", SPACE, COMMA, "Semiannual">>)
        /\ AnchorDate(e) = Date(2023, 1, 15)
        /\ SinglePolicyDue("Annual - ACR", AnchorDate(e)) = Date(2024, 3, 15)
        /\ get_next_due_date(e) = Date(2023, 7, 31)

-----------------------------------------------------------------------------
(* Claims about the pages, under SpecPages *)

\* the classification as the specification words it
Classify(due, day, window) ==
    IF due = NoDate THEN "NoFrequency"
    ELSE IF Earlier(due, day) THEN "Overdue"
    ELSE IF ~Earlier(PlusDays(day, window), due) THEN "Upcoming"
    ELSE "Compliant"

\* active for compliance purposes, as the specification words it
IsActive(e) ==
    /\ equipment[e].exists
    /\ equipment[e].eq_physcov
    /\ ~equipment[e].eq_retired
    /\ (equipment[e].eq_retdate = NoDate \/ Earlier(today, equipment[e].eq_retdate))

\* the equipment a list of the dashboard has entries of
ListedIn(list) == {list[i].eq_id : i \in 1..Len(list)}

DashboardShown == page.view = "compliance_dashboard" /\ ~page.error
IndexShown == page.view = "index" /\ ~page.error
DetailShown == page.view = "equipment_detail" /\ ~page.error

\* C11: an equipment the pages classify is Overdue when due before today,
\* Upcoming when due from today to today + window inclusive, NoFrequency
\* without due date, Compliant otherwise; the dashboard lists the first two
C11_ClassificationBoundaries ==
    /\ DashboardShown =>
        \A e \in active_equipment_ids :
            LET bucket == Classify(get_next_due_date(e), today, page.days_ahead)
            IN  /\ e \in ListedIn(page.overdue_tests) <=> bucket = "Overdue"
                /\ e \in ListedIn(page.upcoming_tests) <=> bucket = "Upcoming"
    /\ IndexShown =>
        LET members(bucket) ==
                {e \in active_equipment_ids :
                    Classify(get_next_due_date(e), today, 90) = bucket}
        IN  /\ page.overdue_count = Cardinality(members("Overdue"))
            /\ page.upcoming_count = Cardinality(members("Upcoming"))
            /\ page.compliant_count = Cardinality(members("Compliant"))
            /\ page.no_frequency_count = Cardinality(members("NoFrequency"))

\* with the default window, equipment 1 due exactly 90 days after today is
\* listed upcoming and equipment 2 due the day before today is listed overdue
C11_Witness ==
    /\ DashboardShown
    /\ page.days_ahead = 90
    /\ page.upcoming_tests =
           <<[eq_id |-> 1, next_due_date |-> Date(2024, 8, 8),
              last_tested_date |-> Date(2023, 7, 9)]>>
    /\ PlusDays(today, 90) = Date(2024, 8, 8)
    /\ page.overdue_tests =
           <<[eq_id |-> 2, next_due_date |-> Date(2024, 5, 9),
              last_tested_date |-> Date(2023, 4, 9)]>>
    /\ PlusDays(Date(2024, 5, 9), 1) = today

\* C12: the buckets hold active equipment only: covered, not flagged
\* retired, retirement date absent or after today
C12_BucketsHoldActiveOnly ==
    /\ DashboardShown =>
        ListedIn(page.overdue_tests) \cup ListedIn(page.upcoming_tests)
            \subseteq {e \in EqIds : IsActive(e)}
    /\ IndexShown =>
        LET members(bucket) ==
                {e \in EqIds :
                    /\ IsActive(e)
                    /\ Classify(get_next_due_date(e), today, 90) = bucket}
        IN  /\ page.overdue_count <= Cardinality(members("Overdue"))
            /\ page.upcoming_count <= Cardinality(members("Upcoming"))
            /\ page.compliant_count <= Cardinality(members("Compliant"))
            /\ page.no_frequency_count <= Cardinality(members("NoFrequency"))

\* equipment 1, retirement date today and due yesterday, is in no list of
\* the dashboard while equipment 2, due yesterday too, is listed overdue
C12_Witness ==
    /\ DashboardShown
    /\ equipment[1].eq_retdate = today
    /\ ~equipment[1].eq_retired /\ equipment[1].eq_physcov
    /\ get_next_due_date(1) = Date(2024, 5, 9)
    /\ 1 \notin ListedIn(page.overdue_tests) \cup ListedIn(page.upcoming_tests)
    /\ ListedIn(page.overdue_tests) = {2}

\* a scheduled test is active under the 30-day rule, as the specification
\* words it
IsActiveSchedule(id) ==
    /\ scheduled[id] # NoScheduled
    /\ LET last == AnchorDate(scheduled[id].eq_id)
       IN  \/ last = NoDate
           \/ Earlier(PlusDays(last, 30), scheduled[id].scheduled_date)

\* the members of a list of schedule_ids
Members(list) == {list[i] : i \in 1..Len(list)}

\* C13: a scheduled test is active if and only if the equipment has no
\* qualifying test or the scheduled date is more than 30 days after the
\* last one; equipment_detail shows exactly the active ones
C13_ActiveIffMoreThanThirtyDays ==
    DetailShown =>
        Members(page.scheduled_tests) =
            {id \in ScheduleIds :
                scheduled[id].eq_id = page.eq_id /\ IsActiveSchedule(id)}

\* last test 2024-05-01: the schedule of 2024-05-31, 30 days after, is left
\* out and the schedule of 2024-06-01, 31 days after, is shown
C13_Witness ==
    /\ DetailShown
    /\ page.eq_id = 1
    /\ get_last_tested_date(1) = Date(2024, 5, 1)
    /\ PlusDays(Date(2024, 5, 1), 30) = Date(2024, 5, 31)
    /\ scheduled[1] = [eq_id |-> 1, scheduled_date |-> Date(2024, 5, 31)]
    /\ scheduled[2] = [eq_id |-> 1, scheduled_date |-> Date(2024, 6, 1)]
    /\ page.scheduled_tests = <<2>>

\* C14: the entry of an equipment in scheduled_by_equipment is an active
\* scheduled test of it with the smallest scheduled date, and there is none
\* when no scheduled test of it is active
C14_EarliestActiveSchedule ==
    DashboardShown =>
        \A e \in EqIds :
            LET active == {id \in ScheduleIds :
                              scheduled[id].eq_id = e /\ IsActiveSchedule(id)}
                entry == page.scheduled_by_equipment[e]
            IN  IF active = {} THEN entry = 0
                ELSE /\ entry \in active
                     /\ \A other \in active :
                            ~Earlier(scheduled[other].scheduled_date,
                                     scheduled[entry].scheduled_date)

\* the schedule of 2024-05-31 is inactive and comes first; the entry of
\* equipment 1 is the later, active schedule of 2024-06-01
C14_Witness ==
    /\ DashboardShown
    /\ get_last_tested_date(1) = Date(2024, 5, 1)
    /\ scheduled[1] = [eq_id |-> 1, scheduled_date |-> Date(2024, 5, 31)]
    /\ scheduled[2] = [eq_id |-> 1, scheduled_date |-> Date(2024, 6, 1)]
    /\ ~IsActiveSchedule(1)
    /\ page.scheduled_by_equipment[1] = 2

\* retired by either flag, as the specification words it
IsRetired(e) ==
    \/ equipment[e].eq_retired
    \/ (equipment[e].eq_retdate # NoDate /\ ~Earlier(today, equipment[e].eq_retdate))

\* the schedule_ids of the entries of the dashboard's scheduled list
ScheduledListed == {page.scheduled_tests[i].schedule_id :
                        i \in 1..Len(page.scheduled_tests)}

\* C15: the scheduled list holds exactly the scheduled tests that are active
\* under the 30-day rule, dated today or later, of equipment not retired
C15_ScheduledListIsActiveFuture ==
    LET expected == {id \in ScheduleIds :
                        /\ IsActiveSchedule(id)
                        /\ ~Earlier(scheduled[id].scheduled_date, today)
                        /\ ~IsRetired(scheduled[id].eq_id)}
    IN  /\ DashboardShown => ScheduledListed = expected
        /\ IndexShown => page.scheduled_tests_count = Cardinality(expected)

\* C16: no entry of the scheduled list, and no scheduled test counted on the
\* index page, belongs to an equipment outside physics coverage
C16_ScheduledListCoveredOnly ==
    /\ DashboardShown =>
        \A i \in 1..Len(page.scheduled_tests) :
            equipment[page.scheduled_tests[i].eq_id].eq_physcov
    /\ IndexShown =>
        page.scheduled_tests_count <=
            Cardinality({id \in ScheduleIds :
                /\ scheduled[id] # NoScheduled
                /\ equipment[scheduled[id].eq_id].eq_physcov})

\* a list of entries ascends in the date they have under the field `key`
Ascending(list, key) ==
    \A i, j \in 1..Len(list) : i < j => ~Earlier(list[j][key], list[i][key])

\* entries of equal date follow each other in ascending equipment id
TiesById(list, key) ==
    \A i, j \in 1..Len(list) :
        (i < j /\ list[i][key] = list[j][key]) => list[i].eq_id <= list[j].eq_id

\* C17: the overdue and the upcoming list ascend in due date and the
\* scheduled list ascends in scheduled date
C17_ListsAscendByDate ==
    DashboardShown =>
        /\ Ascending(page.overdue_tests, "next_due_date")
        /\ Ascending(page.upcoming_tests, "next_due_date")
        /\ Ascending(page.scheduled_tests, "scheduled_date")

\* equipment 2, due 2024-02-14, is listed before equipment 1, due
\* 2024-05-09, and two scheduled tests are listed in the order of their dates
C17_Witness ==
    /\ DashboardShown
    /\ Len(page.overdue_tests) = 2
    /\ page.overdue_tests[1].eq_id = 2
    /\ page.overdue_tests[1].next_due_date = Date(2024, 2, 14)
    /\ page.overdue_tests[2].eq_id = 1
    /\ page.overdue_tests[2].next_due_date = Date(2024, 5, 9)
    /\ Len(page.scheduled_tests) = 2
    /\ Earlier(page.scheduled_tests[1].scheduled_date,
               page.scheduled_tests[2].scheduled_date)

\* C18: within the overdue, upcoming and scheduled lists entries of equal
\* date are in ascending order of equipment id
C18_TiesByEquipmentId ==
    DashboardShown =>
        /\ TiesById(page.overdue_tests, "next_due_date")
        /\ TiesById(page.upcoming_tests, "next_due_date")
        /\ TiesById(page.scheduled_tests, "scheduled_date")

\* C19: no exception escapes a worklist build: index and compliance_dashboard
\* always render their page
C19_NoExceptionEscapes ==
    page.view \in {"index", "compliance_dashboard"} => ~page.error

\* C20: a page view leaves every equipment, compliance test and scheduled
\* test as it was, the scheduled tests its 30-day rule hides included
C20_PagesOnlyRead == [][UNCHANGED <<equipment, tests, scheduled>>]_vars

\* the dashboard was rendered and a scheduled test that the 30-day rule
\* hides is still in the table
C20_Witness ==
    /\ DashboardShown
    /\ \E id \in ScheduleIds :
        /\ scheduled[id] # NoScheduled
        /\ ~IsActiveSchedule(id)
        /\ page.scheduled_by_equipment[scheduled[id].eq_id] # id

\* the entries of the overdue and of the upcoming list
DueEntries ==
    {page.overdue_tests[i] : i \in 1..Len(page.overdue_tests)}
        \cup {page.upcoming_tests[i] : i \in 1..Len(page.upcoming_tests)}

\* C21: the last tested date is the date of the latest qualifying test, None
\* exactly when there is none, and the due date an entry carries is the
\* earliest of the equipment's policies applied to the last tested date it
\* carries
C21_EntryDueFromItsLastTested ==
    /\ \A e \in EqIds :
        equipment[e].exists =>
            /\ get_last_tested_date(e) = AnchorDate(e)
            /\ get_last_tested_date(e) = NoDate <=> AnchorCandidates(e) = {}
    /\ DashboardShown =>
        \A entry \in DueEntries :
            /\ entry.last_tested_date = AnchorDate(entry.eq_id)
            /\ ConfiguredPolicies(entry.eq_id) # {}
            /\ entry.next_due_date =
                   EarliestOf({SinglePolicyDue(name, entry.last_tested_date) :
                                  name \in ConfiguredPolicies(entry.eq_id)})

\* equipment 1 is listed upcoming with its own test date and equipment 2
\* overdue with its own, different one
C21_Witness ==
    /\ DashboardShown
    /\ \E first, other \in DueEntries :
        /\ first.eq_id = 1 /\ first.last_tested_date = Date(2023, 4, 10)
        /\ first.next_due_date = Date(2024, 5, 10)
        /\ other.eq_id = 2 /\ other.last_tested_date = Date(2023, 1, 15)
        /\ other.next_due_date = Date(2024, 2, 14)

\* C25: the four counts of the index page add up to the number of active
\* equipment; no equipment is in both the overdue and the upcoming list, and
\* none is twice in either
C25_ClassificationIsPartition ==
    /\ IndexShown =>
        page.overdue_count + page.upcoming_count + page.compliant_count
            + page.no_frequency_count = Cardinality({e \in EqIds : IsActive(e)})
    /\ DashboardShown =>
        /\ ListedIn(page.overdue_tests) \cap ListedIn(page.upcoming_tests) = {}
        /\ Cardinality(ListedIn(page.overdue_tests)) = Len(page.overdue_tests)
        /\ Cardinality(ListedIn(page.upcoming_tests)) = Len(page.upcoming_tests)

\* two active equipment, one counted overdue and one without due date
C25_Witness ==
    /\ IndexShown
    /\ Cardinality({e \in EqIds : IsActive(e)}) = 2
    /\ page.overdue_count = 1
    /\ page.no_frequency_count = 1
    /\ page.upcoming_count = 0 /\ page.compliant_count = 0

\* C29: the counts of the index page are the lengths of the lists of the
\* dashboard built over the same tables on the same day with the default
\* window, however the rows are fetched
C29_IndexAgreesWithDashboard ==
    IndexShown =>
        \A active_equipment \in fetch_orders(active_equipment_ids),
           all_scheduled_tests \in fetch_by_scheduled_date(schedule_ids) :
            LET dashboard == dashboard_page(0, active_equipment, all_scheduled_tests)
            IN  /\ ~dashboard.error
                /\ page.overdue_count = Len(dashboard.overdue_tests)
                /\ page.upcoming_count = Len(dashboard.upcoming_tests)
                /\ page.scheduled_tests_count = Len(dashboard.scheduled_tests)

\* the index page counts one overdue, one upcoming (due 90 days after
\* today) and one scheduled test
C29_Witness ==
    /\ IndexShown
    /\ page.overdue_count = 1
    /\ page.upcoming_count = 1
    /\ get_next_due_date(1) = Date(2024, 8, 8)
    /\ page.scheduled_tests_count = 1

-----------------------------------------------------------------------------
(* SpecBuild: compliance_dashboard builds the entry of one equipment while  *)
(* other requests add, edit and delete compliance tests. The two queries of *)
(* the build, get_next_due_date and then get_last_tested_date, are separate *)
(* statements of the request's session; a test committed between them is    *)
(* seen by the second.                                                      *)

\* the test types the other requests submit
BuildTestTypes == {"Annual", "Audit"}

\* compliance_dashboard, the body of the loop over active_equipment after
\* the call of get_next_due_date: FakeComplianceTest(next_due, last_tested)
\* is appended to overdue_tests or to upcoming_tests
dashboard_entry(eq_id) ==
    /\ next_due.called
    /\ next_due.eq_id = eq_id
    /\ page = NoPage
    /\ page' = [view |-> "dashboard_entry",
                eq_id |-> eq_id,
                listed |-> compliance_status(next_due.value, today, DEFAULT_DAYS)
                               \in {"Overdue", "Upcoming"},
                next_due_date |-> next_due.value,
                last_tested_date |->
                    IF next_due.value # NoDate
                    THEN get_last_tested_date(eq_id) ELSE NoDate]
    /\ UNCHANGED <<equipment, tests, next_due, scheduled, today>>

InitBuild ==
    /\ equipment = [eq_id \in EqIds |->
           IF eq_id = 1
           THEN [exists |-> TRUE, eq_auditfreq |-> Text(<<"Annual - TJC">>),
                 eq_retired |-> FALSE, eq_retdate |-> NoDate,
                 eq_physcov |-> TRUE]
           ELSE NoEquipment]
    /\ \E test_date \in TestDates :
         tests = [id \in TestIds |->
             IF id = 1
             THEN [eq_id |-> 1, test_type |-> "Annual", test_date |-> test_date]
             ELSE NoTest]
    /\ next_due = NotCalled
    /\ scheduled = [id \in ScheduleIds |-> NoScheduled]
    /\ today = Today
    /\ page = NoPage

NextBuild ==
    \/ \E eq_id \in EqIds : GetNextDueDate(eq_id)
    \/ \E eq_id \in EqIds : dashboard_entry(eq_id)
    \/ \E eq_id \in EqIds, test_type \in BuildTestTypes, test_date \in TestDates :
           compliance_test_new(eq_id, test_type, test_date)
    \/ \E test_id \in TestIds, test_type \in BuildTestTypes, test_date \in TestDates :
           compliance_test_edit(test_id, test_type, test_date)
    \/ \E test_id \in TestIds : compliance_test_delete(test_id)

SpecBuild == InitBuild /\ [][NextBuild]_vars

\* C22: an entry appended to the overdue or upcoming list while other
\* requests change the tests carries a last tested date that is the date of
\* a qualifying test, and a due date that is the earliest of the policies
\* applied to that same date
C22_EntryFromOneHistory ==
    (page.view = "dashboard_entry" /\ page.listed) =>
        /\ page.last_tested_date # NoDate
        /\ page.next_due_date =
               EarliestOf({SinglePolicyDue(name, page.last_tested_date) :
                              name \in ConfiguredPolicies(page.eq_id)})

-----------------------------------------------------------------------------
(* SpecHistory: the test history and the schedule of two equipment change   *)
(* and days pass. Equipment 1 has any one of the five policies, equipment 2 *)
(* is 'Annual - TJC'.                                                       *)

\* the days that pass after the first
MaxDaysPassed == 1

\* date.today() of the first request
HistoryToday == Date(2024, 2, 28)

\* ComplianceTestForm.test_date: dates on both sides of two month ends, one
\* of them today's successor and one after it
HistoryDates ==
    {Date(2023, 12, 30), Date(2023, 12, 31), Date(2024, 2, 29), Date(2024, 3, 1)}

\* ComplianceTestForm.test_type: a qualifying choice and another
HistoryTestTypes == {"Annual", "Audit"}

\* ScheduleTestForm.scheduled_date
HistoryScheduledDates == {Date(2024, 1, 20), Date(2024, 3, 15)}

\* db.session.add(scheduled_test): the row gets a primary key no other row
\* has; the least free one stands for it
new_schedule_id(id) ==
    /\ scheduled[id] = NoScheduled
    /\ \A lower \in 1..(id - 1) : scheduled[lower] # NoScheduled

\* schedule_test_new: get_or_404 on the equipment, the form fills the row
schedule_test_new(eq_id, scheduled_date) ==
    /\ equipment[eq_id].exists
    /\ \E id \in ScheduleIds :
        /\ new_schedule_id(id)
        /\ scheduled' = [scheduled EXCEPT ![id] =
               [eq_id |-> eq_id, scheduled_date |-> scheduled_date]]
    /\ UNCHANGED <<equipment, tests, next_due, today, page>>

\* schedule_test_edit: the form is written over the row, eq_id stays
schedule_test_edit(schedule_id, scheduled_date) ==
    /\ scheduled[schedule_id] # NoScheduled
    /\ scheduled' = [scheduled EXCEPT ![schedule_id].scheduled_date = scheduled_date]
    /\ UNCHANGED <<equipment, tests, next_due, today, page>>

\* schedule_test_delete
schedule_test_delete(schedule_id) ==
    /\ scheduled[schedule_id] # NoScheduled
    /\ scheduled' = [scheduled EXCEPT ![schedule_id] = NoScheduled]
    /\ UNCHANGED <<equipment, tests, next_due, today, page>>

\* the next request is served a day later: date.today() has moved on
day_passes ==
    /\ toordinal(today) < toordinal(HistoryToday) + MaxDaysPassed
    /\ today' = add_timedelta(today, 1)
    /\ UNCHANGED <<equipment, tests, next_due, scheduled, page>>

InitHistory ==
    /\ \E frequency \in FREQUENCY_CHOICES :
         equipment = [eq_id \in EqIds |->
             [exists |-> TRUE,
              eq_auditfreq |-> Text(<<IF eq_id = 1 THEN frequency
                                                 ELSE "Annual - TJC">>),
              eq_retired |-> FALSE, eq_retdate |-> NoDate, eq_physcov |-> TRUE]]
    /\ tests = [id \in TestIds |-> NoTest]
    /\ next_due = NotCalled
    /\ scheduled = [id \in ScheduleIds |-> NoScheduled]
    /\ today = HistoryToday
    /\ page = NoPage

NextHistory ==
    \/ \E eq_id \in EqIds, test_type \in HistoryTestTypes, test_date \in HistoryDates :
           compliance_test_new(eq_id, test_type, test_date)
    \/ \E test_id \in TestIds, test_type \in HistoryTestTypes, test_date \in HistoryDates :
           compliance_test_edit(test_id, test_type, test_date)
    \/ \E test_id \in TestIds : compliance_test_delete(test_id)
    \/ \E eq_id \in EqIds, scheduled_date \in HistoryScheduledDates :
           schedule_test_new(eq_id, scheduled_date)
    \/ \E schedule_id \in ScheduleIds, scheduled_date \in HistoryScheduledDates :
           schedule_test_edit(schedule_id, scheduled_date)
    \/ \E schedule_id \in ScheduleIds : schedule_test_delete(schedule_id)
    \/ day_passes

SpecHistory == InitHistory /\ [][NextHistory]_vars

\* what the pages derive for the equipment `self` of id e from a table of
\* tests and a table of scheduled tests on a day: due date, last tested
\* date, status and the scheduled tests that pass the 30-day condition
derived_from(self, table, schedules, day, e) ==
    LET test == latest_test(table, e)
        last_tested == IF test # NoTest THEN test.test_date ELSE NoDate
        due == next_due_date(self, test)
    IN  [next_due_date |-> due,
         last_tested_date |-> last_tested,
         status |-> compliance_status(due, day, DEFAULT_DAYS),
         active_schedules |->
             {id \in ScheduleIds :
                 /\ schedules[id] # NoScheduled
                 /\ schedules[id].eq_id = e
                 /\ after_last_test(last_tested, schedules[id].scheduled_date)}]

\* before and after a step
derived(e) == derived_from(equipment[e], tests, scheduled, today, e)

derived_after(e) == derived_from(equipment'[e], tests', scheduled', today', e)

\* C23: on every day, the last tested date and the due date of an
\* equipment are given by its tests and its policies alone: the latest
\* qualifying test, dated before or after the day, and the earliest of the
\* policies applied to it
C23_DueIndependentOfToday ==
    \A e \in EqIds :
        LET anchor == IF AnchorCandidates(e) = {} THEN NoDate
                      ELSE EarliestOf({d \in {tests[id].test_date :
                                                 id \in AnchorCandidates(e)} :
                               \A id \in AnchorCandidates(e) :
                                   ~Earlier(d, tests[id].test_date)})
        IN  /\ get_last_tested_date(e) = anchor
            /\ get_next_due_date(e) =
                   IF anchor = NoDate \/ ConfiguredPolicies(e) = {} THEN NoDate
                   ELSE EarliestOf({SinglePolicyDue(name, anchor) :
                                       name \in ConfiguredPolicies(e)})

\* a day has passed, and equipment 1 is anchored on the test of 2024-03-01,
\* which is later than today
C23_Witness ==
    /\ today = Date(2024, 2, 29)
    /\ get_last_tested_date(1) = Date(2024, 3, 1)
    /\ Earlier(today, get_last_tested_date(1))
    /\ get_next_due_date(1) # NoDate
    /\ get_last_tested_date(2) = Date(2024, 2, 29)

\* a step that adds the test `id`
AddsTest(id) ==
    /\ tests[id] = NoTest
    /\ tests'[id] # NoTest
    /\ \A other \in TestIds \ {id} : tests'[other] = tests[other]

\* a step that deletes the test `id`
DeletesTest(id) ==
    /\ tests[id] # NoTest
    /\ tests'[id] = NoTest

\* C26: adding a qualifying test to an anchored equipment never moves the
\* due date earlier: a test dated on or after the anchor becomes the anchor
\* and the due date is the old one or later; a test dated before the anchor
\* leaves due date and last tested date as they were
C26_AddingTestNeverEarlier ==
    [][\A id \in TestIds, e \in EqIds :
          (/\ AddsTest(id)
           /\ tests'[id].eq_id = e
           /\ tests'[id].test_type \in {"acceptance", "annual", "Acceptance", "Annual"}
           /\ AnchorDate(e) # NoDate) =>
              IF ~Earlier(tests'[id].test_date, AnchorDate(e))
              THEN /\ derived_after(e).last_tested_date = tests'[id].test_date
                   /\ ~Earlier(derived_after(e).next_due_date, get_next_due_date(e))
              ELSE /\ derived_after(e).last_tested_date = get_last_tested_date(e)
                   /\ derived_after(e).next_due_date = get_next_due_date(e)]_vars

\* equipment 1 has two Annual tests, the second added is the older one, and
\* the equipment is anchored on the first; equipment 1 is not 'Annual - TJC'
C26_Witness ==
    /\ tests[1] = [eq_id |-> 1, test_type |-> "Annual", test_date |-> Date(2024, 2, 29)]
    /\ tests[2] = [eq_id |-> 1, test_type |-> "Annual", test_date |-> Date(2023, 12, 31)]
    /\ get_last_tested_date(1) = Date(2024, 2, 29)
    /\ equipment[1].eq_auditfreq = Text(<<"Annual - ACR">>)
    /\ get_next_due_date(1) = Date(2025, 4, 29)

\* a step touches the equipment e when it changes a qualifying test of e, a
\* scheduled test of e, the equipment or the day
Touches(e) ==
    \/ \E id \in TestIds :
        /\ tests'[id] # tests[id]
        /\ \/ /\ tests[id].eq_id = e
              /\ tests[id].test_type \in {"acceptance", "annual", "Acceptance", "Annual"}
           \/ /\ tests'[id].eq_id = e
              /\ tests'[id].test_type \in {"acceptance", "annual", "Acceptance", "Annual"}
    \/ \E id \in ScheduleIds :
        /\ scheduled'[id] # scheduled[id]
        /\ scheduled[id].eq_id = e \/ scheduled'[id].eq_id = e
    \/ equipment' # equipment
    \/ today' # today

\* C27: a step that adds, edits or deletes tests of other types, or tests
\* and scheduled tests of other equipment, leaves the due date, the last
\* tested date, the status and the active scheduled tests of an equipment
\* unchanged
C27_OtherRecordsChangeNothing ==
    [][\A e \in EqIds : ~Touches(e) => derived_after(e) = derived(e)]_vars

\* equipment 1 is anchored on its Annual test although an Audit test of a
\* later date was added to it after; one of its scheduled tests is active
C27_Witness ==
    /\ tests[1] = [eq_id |-> 1, test_type |-> "Annual", test_date |-> Date(2023, 12, 30)]
    /\ tests[2] = [eq_id |-> 1, test_type |-> "Audit", test_date |-> Date(2024, 3, 1)]
    /\ derived(1).last_tested_date = Date(2023, 12, 30)
    /\ derived(1).active_schedules = {1}
    /\ scheduled[2].eq_id = 2

\* C28: after a test is deleted, what is derived for its equipment is what
\* the remaining tests give, anchored on the latest qualifying test that
\* remains; and what the tables give after a test was added, with that test
\* taken out again, is what was derived before it was added
C28_DeleteReanchors ==
    [][\A id \in TestIds, e \in EqIds :
          /\ (DeletesTest(id) /\ tests[id].eq_id = e) =>
                LET remaining == {tests[other].test_date :
                                     other \in AnchorCandidates(e) \ {id}}
                IN  /\ derived_after(e) =
                           derived_from(equipment[e], [tests EXCEPT ![id] = NoTest],
                                        scheduled, today, e)
                    /\ IF remaining = {}
                       THEN /\ derived_after(e).last_tested_date = NoDate
                            /\ derived_after(e).next_due_date = NoDate
                       ELSE /\ derived_after(e).last_tested_date \in remaining
                            /\ \A d \in remaining :
                                   ~Earlier(derived_after(e).last_tested_date, d)
          /\ (AddsTest(id) /\ tests'[id].eq_id = e) =>
                derived_from(equipment'[e], [tests' EXCEPT ![id] = NoTest],
                             scheduled', today', e) = derived(e)]_vars

\* test 1 was deleted; equipment 1 is anchored on the Annual test that
\* remains, which is older than the day
C28_Witness ==
    /\ tests[1] = NoTest
    /\ tests[2] = [eq_id |-> 1, test_type |-> "Annual", test_date |-> Date(2023, 12, 31)]
    /\ get_last_tested_date(1) = Date(2023, 12, 31)
    /\ get_next_due_date(1) # NoDate

-----------------------------------------------------------------------------
(* SpecList: equipment_list sorted by days_until_due over a database of two *)
(* equipment on Today                                                       *)

\* get_days_until_due: the keys of retired equipment, of equipment without
\* due date and of equipment whose computation raised
RETIRED_KEY == 9999

NO_DUE_DATE_KEY == 9998

EXCEPTION_KEY == 9997

\* the test dates of equipment 1: a past one, one entered with the year
\* 2055, and one whose due date leaves year MAXYEAR
ListTestDates == {Date(2023, 4, 9), Date(2055, 1, 1), Date(9999, 6, 1)}

\* request.args.get('order'): the order of the days_until_due sort
SortOrders == {"asc", "desc"}

\* equipment_list.get_days_until_due
get_days_until_due(eq_id) ==
    IF is_retired(equipment[eq_id]) THEN RETIRED_KEY
    ELSE IF due_date_raises(eq_id) THEN EXCEPTION_KEY
    ELSE LET due_date == get_next_due_date(eq_id)
         IN  IF due_date # NoDate
             THEN toordinal(due_date) - toordinal(today)
             ELSE NO_DUE_DATE_KEY

\* the filters of the query of equipment_list with no search and no
\* class, manufacturer, department or facility selected
list_filter(self, include_retired, include_noncovered) ==
    /\ self.exists
    /\ include_retired \/
           /\ self.eq_retired = FALSE
           /\ (self.eq_retdate = NoDate \/ date_lt(today, self.eq_retdate))
    /\ include_noncovered \/ self.eq_physcov = TRUE

\* all_equipment.sort(key=get_days_until_due, reverse=reverse_sort): the
\* sort is stable in both directions
sort_by_days_until_due(all_equipment, reverse_sort) ==
    LET key(i) == get_days_until_due(all_equipment[i])
        rank(i) ==
            1 + Cardinality({j \in 1..Len(all_equipment) :
                    \/ IF reverse_sort THEN key(j) > key(i) ELSE key(j) < key(i)
                    \/ (key(j) = key(i) /\ j < i)})
    IN  [n \in 1..Len(all_equipment) |->
            all_equipment[CHOOSE i \in 1..Len(all_equipment) : rank(i) = n]]

\* equipment_list with sort=days_until_due: the query has no order_by, the
\* rows are sorted by the key and all of them fit on the first page
equipment_list(include_retired, include_noncovered, days_sort_order) ==
    /\ \E all_equipment \in
           fetch_orders({eq_id \in EqIds :
               list_filter(equipment[eq_id], include_retired, include_noncovered)}) :
         page' = [view |-> "equipment_list",
                  days_sort_order |-> days_sort_order,
                  items |-> sort_by_days_until_due(all_equipment,
                                                   days_sort_order = "desc")]
    /\ UNCHANGED <<equipment, tests, next_due, scheduled, today>>

InitList ==
    /\ \E auditfreq \in {Null, Text(<<"Annual - TJC">>)},
          eq_retired \in BOOLEAN, eq_retdate \in {NoDate, Today},
          eq_physcov \in BOOLEAN :
         equipment = [eq_id \in EqIds |->
             IF eq_id = 1
             THEN [exists |-> TRUE, eq_auditfreq |-> Text(<<"Annual - TJC">>),
                   eq_retired |-> FALSE, eq_retdate |-> NoDate,
                   eq_physcov |-> TRUE]
             ELSE [exists |-> TRUE, eq_auditfreq |-> auditfreq,
                   eq_retired |-> eq_retired, eq_retdate |-> eq_retdate,
                   eq_physcov |-> eq_physcov]]
    /\ \E first \in {NoTest} \cup [eq_id : {1}, test_type : {"Annual"},
                                   test_date : ListTestDates],
          second \in {NoTest} \cup [eq_id : {2}, test_type : {"Annual"},
                                    test_date : {Date(2023, 4, 10)}] :
         tests = [id \in TestIds |-> IF id = 1 THEN first ELSE second]
    /\ next_due = NotCalled
    /\ scheduled = [id \in ScheduleIds |-> NoScheduled]
    /\ today = Today
    /\ page = NoPage

NextList ==
    \E include_retired \in BOOLEAN, include_noncovered \in BOOLEAN,
       days_sort_order \in SortOrders :
        equipment_list(include_retired, include_noncovered, days_sort_order)

SpecList == InitList /\ [][NextList]_vars

\* the equipment has a computed due date
HasDueDate(e) ==
    /\ ~IsRetired(e)
    /\ ~due_date_raises(e)
    /\ get_next_due_date(e) # NoDate

\* C24: in the list sorted ascending by days_until_due no retired equipment
\* precedes one that is not retired, and no equipment without due date, and
\* none whose computation raised, precedes one with a computed due date
C24_AscendingDaysUntilDue ==
    (page.view = "equipment_list" /\ page.days_sort_order = "asc") =>
        \A i, j \in 1..Len(page.items) :
            i < j =>
                /\ ~(IsRetired(page.items[i]) /\ ~IsRetired(page.items[j]))
                /\ ~(~HasDueDate(page.items[i]) /\ HasDueDate(page.items[j]))

-----------------------------------------------------------------------------
(* SpecRetire: the four operations that save an equipment, with the         *)
(* retirement fields filled in every way, from the empty database           *)

\* a retirement date entered in a form, a JSON body or a CSV cell
EnteredRetirementDates == {NoDate, Date(2024, 5, 1)}

\* EquipmentForm as submitted to equipment_new and equipment_edit
RetireForms ==
    [eq_auditfreq : {<<"Annual - TJC">>}, eq_retired : BOOLEAN,
     eq_retdate : EnteredRetirementDates, eq_physcov : BOOLEAN]

\* EquipmentForm as submitted to equipment_edit: a second frequency may be
\* selected for the equipment
RetireEditForms ==
    [eq_auditfreq : {<<"Annual - TJC">>, <<"Annual - TJC", "Annual - ACR">>},
     eq_retired : BOOLEAN, eq_retdate : EnteredRetirementDates,
     eq_physcov : BOOLEAN]

\* the JSON body of update_equipment_details
RetireJsonBodies ==
    [eq_auditfreq : {<<"Annual - TJC">>}, eq_retired : BOOLEAN,
     eq_retdate : EnteredRetirementDates]

\* the eq_retired and eq_physcov cells of a CSV row; "" is the empty cell
CsvBooleanCells == {"", "TRUE", "yes", "FALSE"}

\* the eq_auditfreq cells of a CSV row
CsvFrequencyCells ==
    {<<>>, <<"Quarterly">>, <<"Quarterly", COMMA, SPACE, "Monthly">>}

\* the rows of an uploaded equipment CSV; eq_id 0 is the empty cell
CsvRows ==
    [eq_id : {0} \cup EqIds, eq_retired : CsvBooleanCells,
     eq_retdate : EnteredRetirementDates, eq_physcov : {"", "FALSE"},
     eq_auditfreq : CsvFrequencyCells]

\* str.upper() of the cells above
upper(cell) == IF cell = "yes" THEN "YES" ELSE cell

\* import_data: the value of a boolean cell, default_value for the empty one
csv_boolean(cell, default_value) ==
    IF cell # "" THEN upper(cell) \in {"TRUE", "1", "YES", "Y"}
    ELSE default_value

RECURSIVE valid_freqs(_)
\* [f for f in freq_list if f in valid_frequencies] over the stripped pieces
valid_freqs(pieces) ==
    IF pieces = <<>> THEN <<>>
    ELSE LET f == strip(Head(pieces))
         IN  IF Len(f) = 1 /\ f[1] \in FREQUENCY_CHOICES
             THEN <<f[1]>> \o valid_freqs(Tail(pieces))
             ELSE valid_freqs(Tail(pieces))

\* import_data: eq_auditfreq from its cell; an empty cell leaves the value.
\* A cell that is not a known name is read as an old integer code, and
\* 'Annual - TJC' is stored when it is not a number either.
csv_auditfreq(cell, current) ==
    IF cell = <<>> THEN current
    ELSE LET audit_freq_str == strip(cell)
         IN  IF \E i \in 1..Len(audit_freq_str) : audit_freq_str[i] = COMMA
             THEN IF valid_freqs(split_comma(audit_freq_str)) # <<>>
                  THEN Text(join_comma_space(valid_freqs(split_comma(audit_freq_str))))
                  ELSE Text(<<"Annual - TJC">>)
             ELSE IF Len(audit_freq_str) = 1 /\ audit_freq_str[1] \in FREQUENCY_CHOICES
                  THEN Text(audit_freq_str)
                  ELSE Text(<<"Annual - TJC">>)

\* import_data, one row: the equipment of the eq_id cell is updated; when
\* there is none a new one is created under that eq_id, or under the next
\* one when the cell is empty. Columns never assigned get their defaults.
import_data(row) ==
    /\ \E eq_id \in EqIds :
        /\ IF row.eq_id # 0 THEN eq_id = row.eq_id
           ELSE /\ ~equipment[eq_id].exists
                /\ \A lower \in 1..(eq_id - 1) : equipment[lower].exists
        /\ LET is_update == equipment[eq_id].exists
               eq_retdate == IF row.eq_retdate # NoDate THEN row.eq_retdate
                             ELSE IF is_update THEN equipment[eq_id].eq_retdate
                             ELSE NoDate
               eq_retired == csv_boolean(row.eq_retired, FALSE)
           IN  equipment' = [equipment EXCEPT ![eq_id] =
                   [exists |-> TRUE,
                    eq_auditfreq |->
                        csv_auditfreq(row.eq_auditfreq,
                                      IF is_update THEN equipment[eq_id].eq_auditfreq
                                      ELSE Text(<<"Annual - TJC">>)),
                    eq_retired |-> eq_retired,
                    eq_retdate |-> IF eq_retired /\ eq_retdate = NoDate
                                   THEN today ELSE eq_retdate,
                    eq_physcov |-> csv_boolean(row.eq_physcov, TRUE)]]
    /\ UNCHANGED <<tests, next_due, scheduled, today, page>>

NextRetire ==
    \/ \E form \in RetireForms : equipment_new(form)
    \/ \E eq_id \in EqIds, form \in RetireEditForms : equipment_edit(eq_id, form)
    \/ \E eq_id \in EqIds, data \in RetireJsonBodies :
           update_equipment_details(eq_id, data)
    \/ \E row \in CsvRows : import_data(row)

SpecRetire == Init /\ [][NextRetire]_vars

\* C30: every equipment whose retired flag is set has a retirement date
C30_RetiredHasRetirementDate ==
    \A e \in EqIds :
        (equipment[e].exists /\ equipment[e].eq_retired) =>
            equipment[e].eq_retdate # NoDate

====
